---- MODULE Spec2Model ----
(***************************************************************************)
(* Model of the diff engine of Text-Comparer (src/utils/diffEngine.ts).    *)
(* computeDiff is modelled as a state machine: one action for the set-up   *)
(* (line split and LCS table), one action per branch of the backtracking   *)
(* loop, one action per branch of the row-assembly loop, and the return.   *)
(* A string is a sequence of one-character strings; "" is << >>.          *)
(***************************************************************************)
EXTENDS Integers, Sequences, FiniteSets, TLC

VARIABLES text1, text2, lines1, lines2, matrix, i, j, additions, deletions,
          rawDiff, rawIndex, originalLines, modifiedLines, pc

\* The locals of computeCharDiff while a replacement row is being computed
\* step by step.
VARIABLES charChars1, charChars2, charMatrix, charI, charJ, charResult

\* DiffViewer: the two panes, the two flags and the scroll events that
\* the browser has queued and not yet dispatched; userScrollIgnored
\* records that a handler returned early on an event a user scroll caused.
VARIABLES leftScrollTop, rightScrollTop, leftScrollLeft, rightScrollLeft,
          isSyncingLeft, isSyncingRight, scrollEvents,
          userScrollIgnored

diffVars == <<text1, text2, lines1, lines2, matrix, i, j, additions, deletions,
              rawDiff, rawIndex, originalLines, modifiedLines, pc>>

charVars == <<charChars1, charChars2, charMatrix, charI, charJ, charResult>>

scrollVars == <<leftScrollTop, rightScrollTop, leftScrollLeft, rightScrollLeft,
                isSyncingLeft, isSyncingRight, scrollEvents,
                userScrollIgnored>>

vars == <<diffVars, charVars, scrollVars>>

\* ---------------------------------------------------------------- bounds
MaxLen == 3
MaxScrollTop == 2
MaxScrollLeft == 1

\* ---------------------------------------------------------------- types
EQUAL == "EQUAL"
INSERT == "INSERT"
DELETE == "DELETE"
EMPTY == "EMPTY"

\* ---------------------------------------------------------------- inputs
LF == "\n"
CR == "\r"

Alphabet == {"a", "b", LF}

RECURSIVE StringsOfLen(_)
StringsOfLen(n) ==
  IF n = 0 THEN {<< >>}
  ELSE {Append(s, c) : s \in StringsOfLen(n - 1), c \in Alphabet}

Strings == UNION {StringsOfLen(n) : n \in 0..MaxLen}

HelloWorld == <<"h","e","l","l","o"," ","w","o","r","l","d">>
HelloThere == <<"h","e","l","l","o"," ","t","h","e","r","e">>

\* Inputs outside the enumerated alphabet: the scenario of the character
\* phase and carriage returns before and away from a line feed.
ExtraInputs ==
  { <<HelloWorld, HelloThere>>,
    <<<< >>, <<"x">>>>,
    <<<<"a", "b", LF, "c", LF>>, <<"a", "a", LF, "c", LF, "x">>>>,
    <<<<"a", "a", LF, "c", LF, "a", "b">>, <<"a", "b", "a", LF, "c", LF>>>>,
    <<<<"c", LF, "a", LF, "a">>, <<"c", LF, "b", LF, "b">>>>,
    <<HelloWorld, HelloWorld>>,
    <<<<"a", CR, LF, "b">>, <<"a", LF, "b">>>>,
    <<<<"a", CR, LF, "b", CR>>, <<"a", CR, LF, "b", CR>>>>,
    <<<<"a", CR, "b">>, <<"a", LF, CR, LF>>>>,
    <<<<"a", LF, "b">>, <<"c", LF, "d", LF, "e">>>>,
    <<<<"a", LF, "b", LF, "c">>, <<"a", LF, "c">>>> }

Inputs == (Strings \X Strings) \cup ExtraInputs

\* ---------------------------------------------------------------- helpers
Max(a, b) == IF a >= b THEN a ELSE b

\* String.prototype.split(/\r?\n/): a line feed ends the current line, a
\* carriage return directly before a line feed belongs to the separator.
RECURSIVE SplitFrom(_, _, _, _)
SplitFrom(text, k, cur, acc) ==
  IF k > Len(text) THEN Append(acc, cur)
  ELSE IF text[k] = LF THEN SplitFrom(text, k + 1, << >>, Append(acc, cur))
  ELSE IF text[k] = CR /\ k < Len(text) /\ text[k + 1] = LF
       THEN SplitFrom(text, k + 1, cur, acc)
  ELSE SplitFrom(text, k + 1, Append(cur, text[k]), acc)

\* A split that leaves out the empty lines.
SplitSkipEmpty(text) ==
  LET all == SplitFrom(text, 1, << >>, << >>)
      keep[k \in 0..Len(all)] ==
        IF k = 0 THEN << >>
        ELSE IF all[k] = << >> THEN keep[k - 1] ELSE Append(keep[k - 1], all[k])
  IN keep[Len(all)]

Split(text) == SplitFrom(text, 1, << >>, << >>)

\* One row of the LCS table: prev is row i-1, a is A[i-1], cur the entries
\* of row i filled so far.  Position k of a row holds column k-1.
RECURSIVE FillRow(_, _, _, _)
FillRow(prev, a, B, cur) ==
  IF Len(cur) = Len(B) + 1 THEN cur
  ELSE LET jj == Len(cur)
           val == IF a = B[jj] THEN prev[jj] + 1
                  ELSE Max(prev[jj + 1], cur[jj])
       IN FillRow(prev, a, B, Append(cur, val))

RECURSIVE FillRows(_, _, _)
FillRows(A, B, rows) ==
  IF Len(rows) = Len(A) + 1 THEN rows
  ELSE FillRows(A, B, Append(rows, FillRow(rows[Len(rows)], A[Len(rows)], B, <<0>>)))

\* The (n+1) x (m+1) table; row 0 and column 0 are zero.
FillMatrix(A, B) == FillRows(A, B, << [k \in 1..(Len(B) + 1) |-> 0] >>)

Cell(M, r, c) == M[r + 1][c + 1]

\* ------------------------------------------------------- computeCharDiff
\* Backtracking loop of computeCharDiff: result.unshift puts the part in
\* front of the parts found so far.
RECURSIVE CharBacktrack(_, _, _, _, _, _)
CharBacktrack(chars1, chars2, M, ci, cj, result) ==
  IF ~(ci > 0 \/ cj > 0) THEN result
  ELSE IF ci > 0 /\ cj > 0 /\ chars1[ci] = chars2[cj]
       THEN CharBacktrack(chars1, chars2, M, ci - 1, cj - 1,
                          <<[type |-> EQUAL, content |-> <<chars1[ci]>>]>> \o result)
  ELSE IF cj > 0 /\ (IF ci = 0 THEN TRUE ELSE Cell(M, ci, cj - 1) >= Cell(M, ci - 1, cj))
       THEN CharBacktrack(chars1, chars2, M, ci, cj - 1,
                          <<[type |-> INSERT, content |-> <<chars2[cj]>>]>> \o result)
  ELSE CharBacktrack(chars1, chars2, M, ci - 1, cj,
                     <<[type |-> DELETE, content |-> <<chars1[ci]>>]>> \o result)

\* The merge loop without the push after the loop.
RECURSIVE MergeFromNoLastPush(_, _, _, _)
MergeFromNoLastPush(result, k, current, merged) ==
  IF k > Len(result) THEN merged
  ELSE IF result[k].type = current.type
       THEN MergeFromNoLastPush(result, k + 1,
              [current EXCEPT !.content = current.content \o result[k].content], merged)
  ELSE MergeFromNoLastPush(result, k + 1, result[k], Append(merged, current))

\* The merge loop that starts a new segment at every part.
RECURSIVE MergeFromNoMerge(_, _, _, _)
MergeFromNoMerge(result, k, current, merged) ==
  IF k > Len(result) THEN Append(merged, current)
  ELSE MergeFromNoMerge(result, k + 1, result[k], Append(merged, current))

\* The merge loop: k is the next index of result, current the open run.
RECURSIVE MergeFrom(_, _, _, _)
MergeFrom(result, k, current, merged) ==
  IF k > Len(result) THEN Append(merged, current)
  ELSE IF result[k].type = current.type
       THEN MergeFrom(result, k + 1,
                      [current EXCEPT !.content = current.content \o result[k].content],
                      merged)
  ELSE MergeFrom(result, k + 1, result[k], Append(merged, current))

MergeParts(result) ==
  IF Len(result) > 0 THEN MergeFrom(result, 2, result[1], << >>) ELSE << >>

computeCharDiff(t1, t2) ==
  MergeParts(CharBacktrack(t1, t2, FillMatrix(t1, t2), Len(t1), Len(t2), << >>))

\* A filter that keeps every part.
FilterOutNothing(parts, kind) == parts

\* Array.prototype.filter with the predicate p.type !== kind.
RECURSIVE FilterOut(_, _)
FilterOut(parts, kind) ==
  IF parts = << >> THEN << >>
  ELSE IF Head(parts).type # kind
       THEN <<Head(parts)>> \o FilterOut(Tail(parts), kind)
  ELSE FilterOut(Tail(parts), kind)

\* ------------------------------------------------------------ computeDiff
\* No call of computeCharDiff is in progress.
CharIdle ==
  /\ charChars1 = << >>
  /\ charChars2 = << >>
  /\ charMatrix = << >>
  /\ charI = 0
  /\ charJ = 0
  /\ charResult = << >>

\* DiffViewer as mounted: both panes at the top left, both flags false
\* (useRef(false)), no scroll event queued.
ScrollIdle ==
  /\ leftScrollTop = 0
  /\ rightScrollTop = 0
  /\ leftScrollLeft = 0
  /\ rightScrollLeft = 0
  /\ isSyncingLeft = FALSE
  /\ isSyncingRight = FALSE
  /\ scrollEvents = << >>
  /\ userScrollIgnored = FALSE

Init ==
  /\ \E input \in Inputs : text1 = input[1] /\ text2 = input[2]
  /\ lines1 = << >>
  /\ lines2 = << >>
  /\ matrix = << >>
  /\ i = 0
  /\ j = 0
  /\ additions = 0
  /\ deletions = 0
  /\ rawDiff = << >>
  /\ rawIndex = 0
  /\ originalLines = << >>
  /\ modifiedLines = << >>
  /\ pc = "start"
  /\ CharIdle
  /\ ScrollIdle

\* Lines 66-92: split both texts, fill the table, start at its corner.
Setup ==
  /\ pc = "start"
  /\ lines1' = Split(text1)
  /\ lines2' = Split(text2)
  /\ matrix' = FillMatrix(lines1', lines2')
  /\ i' = Len(lines1')
  /\ j' = Len(lines2')
  /\ pc' = "backtrack"
  /\ UNCHANGED <<text1, text2, additions, deletions, rawDiff, rawIndex,
                 originalLines, modifiedLines>>
  /\ UNCHANGED <<charVars, scrollVars>>

\* The loop condition and the two tests of lines 94-99 (|| short-circuits).
InLoop == i > 0 \/ j > 0

\* EqualHere tested only after the insert test has failed.
EqualHereAfterInsert ==
  /\ i > 0 /\ j > 0 /\ lines1[i] = lines2[j]
  /\ ~(j > 0 /\ (IF i = 0 THEN TRUE
                  ELSE Cell(matrix, i, j - 1) >= Cell(matrix, i - 1, j)))

EqualHere == i > 0 /\ j > 0 /\ lines1[i] = lines2[j]

\* InsertHere that never consults the table.
InsertHereNoTable == j > 0

\* InsertHere with > for >=: Delete preferred on ties.
InsertHereStrict ==
  j > 0 /\ (IF i = 0 THEN TRUE ELSE Cell(matrix, i, j - 1) > Cell(matrix, i - 1, j))

InsertHere ==
  j > 0 /\ (IF i = 0 THEN TRUE ELSE Cell(matrix, i, j - 1) >= Cell(matrix, i - 1, j))

BacktrackEqual ==
  /\ pc = "backtrack"
  /\ InLoop
  /\ EqualHere
  /\ rawDiff' = <<[type |-> EQUAL, content |-> lines1[i], oldLn |-> i, newLn |-> j]>>
                  \o rawDiff
  /\ i' = i - 1
  /\ j' = j - 1
  /\ UNCHANGED <<text1, text2, lines1, lines2, matrix, additions, deletions,
                 rawIndex, originalLines, modifiedLines, pc>>
  /\ UNCHANGED <<charVars, scrollVars>>

BacktrackInsert ==
  /\ pc = "backtrack"
  /\ InLoop
  /\ ~EqualHere
  /\ InsertHere
  /\ rawDiff' = <<[type |-> INSERT, content |-> lines2[j], newLn |-> j]>> \o rawDiff
  /\ j' = j - 1
  /\ additions' = additions + 1
  /\ UNCHANGED <<text1, text2, lines1, lines2, matrix, i, deletions,
                 rawIndex, originalLines, modifiedLines, pc>>
  /\ UNCHANGED <<charVars, scrollVars>>

\* BacktrackDelete that bumps the wrong counter.
BacktrackDeleteCountsAddition ==
  /\ pc = "backtrack"
  /\ InLoop
  /\ ~EqualHere
  /\ ~InsertHere
  /\ rawDiff' = <<[type |-> DELETE, content |-> lines1[i], oldLn |-> i]>> \o rawDiff
  /\ i' = i - 1
  /\ additions' = additions + 1
  /\ UNCHANGED <<text1, text2, lines1, lines2, matrix, j, deletions,
                 rawIndex, originalLines, modifiedLines, pc>>
  /\ UNCHANGED <<charVars, scrollVars>>

BacktrackDelete ==
  /\ pc = "backtrack"
  /\ InLoop
  /\ ~EqualHere
  /\ ~InsertHere
  /\ rawDiff' = <<[type |-> DELETE, content |-> lines1[i], oldLn |-> i]>> \o rawDiff
  /\ i' = i - 1
  /\ deletions' = deletions + 1
  /\ UNCHANGED <<text1, text2, lines1, lines2, matrix, j, additions,
                 rawIndex, originalLines, modifiedLines, pc>>
  /\ UNCHANGED <<charVars, scrollVars>>

\* Lines 108-112: the backtracking loop is left, rawIndex starts at 0.
\* rawIndex counts the tokens consumed; the current token is rawDiff[rawIndex + 1].
BacktrackDone ==
  /\ pc = "backtrack"
  /\ ~InLoop
  /\ rawIndex' = 0
  /\ pc' = "assemble"
  /\ UNCHANGED <<text1, text2, lines1, lines2, matrix, i, j, additions, deletions,
                 rawDiff, originalLines, modifiedLines>>
  /\ UNCHANGED <<charVars, scrollVars>>

change == rawDiff[rawIndex + 1]

\* The look-ahead starting at the current token instead of the next one.
IsModificationFromCurrent ==
  LET lookAhead == rawIndex
      modification == lookAhead < Len(rawDiff) /\ rawDiff[lookAhead + 1].type = INSERT
  IN modification /\ rawIndex + 1 < Len(rawDiff) /\ rawDiff[rawIndex + 2].type = INSERT

\* Lines 122-128 and the test of line 130.
IsModification ==
  LET lookAhead == rawIndex + 1
      modification == lookAhead < Len(rawDiff) /\ rawDiff[lookAhead + 1].type = INSERT
  IN modification /\ rawIndex + 1 < Len(rawDiff) /\ rawDiff[rawIndex + 2].type = INSERT

AssembleEqual ==
  /\ pc = "assemble"
  /\ rawIndex < Len(rawDiff)
  /\ change.type = EQUAL
  /\ originalLines' = Append(originalLines,
       [type |-> EQUAL, content |-> change.content, originalLineNumber |-> change.oldLn])
  /\ modifiedLines' = Append(modifiedLines,
       [type |-> EQUAL, content |-> change.content, modifiedLineNumber |-> change.newLn])
  /\ rawIndex' = rawIndex + 1
  /\ UNCHANGED <<text1, text2, lines1, lines2, matrix, i, j, additions, deletions,
                 rawDiff, pc>>
  /\ UNCHANGED <<charVars, scrollVars>>

\* AssembleReplace that steps over the Delete only, so that the paired
\* Insert is visited again by the row loop.
AssembleReplaceStepOne ==
  /\ pc = "assemble"
  /\ rawIndex < Len(rawDiff)
  /\ change.type = DELETE
  /\ IsModification
  /\ LET charDiffs == computeCharDiff(change.content, rawDiff[rawIndex + 2].content)
     IN /\ originalLines' = Append(originalLines,
             [type |-> DELETE, content |-> change.content,
              originalLineNumber |-> change.oldLn, parts |-> FilterOut(charDiffs, INSERT)])
        /\ modifiedLines' = Append(modifiedLines,
             [type |-> INSERT, content |-> rawDiff[rawIndex + 2].content,
              modifiedLineNumber |-> rawDiff[rawIndex + 2].newLn,
              parts |-> FilterOut(charDiffs, DELETE)])
  /\ rawIndex' = rawIndex + 1
  /\ UNCHANGED <<text1, text2, lines1, lines2, matrix, i, j, additions, deletions,
                 rawDiff, pc>>
  /\ UNCHANGED <<charVars, scrollVars>>

AssembleReplace ==
  /\ pc = "assemble"
  /\ rawIndex < Len(rawDiff)
  /\ change.type = DELETE
  /\ IsModification
  /\ LET oldLine == change.content
         newLine == rawDiff[rawIndex + 2].content
         charDiffs == computeCharDiff(oldLine, newLine)
         originalParts == FilterOut(charDiffs, INSERT)
         modifiedParts == FilterOut(charDiffs, DELETE)
     IN /\ originalLines' = Append(originalLines,
             [type |-> DELETE, content |-> change.content,
              originalLineNumber |-> change.oldLn, parts |-> originalParts])
        /\ modifiedLines' = Append(modifiedLines,
             [type |-> INSERT, content |-> rawDiff[rawIndex + 2].content,
              modifiedLineNumber |-> rawDiff[rawIndex + 2].newLn, parts |-> modifiedParts])
  /\ rawIndex' = rawIndex + 2
  /\ UNCHANGED <<text1, text2, lines1, lines2, matrix, i, j, additions, deletions,
                 rawDiff, pc>>
  /\ UNCHANGED <<charVars, scrollVars>>

\* AssembleDelete that gives the Empty side the number of the deleted line.
AssembleDeleteNumbersEmpty ==
  /\ pc = "assemble"
  /\ rawIndex < Len(rawDiff)
  /\ change.type = DELETE
  /\ ~IsModification
  /\ originalLines' = Append(originalLines,
       [type |-> DELETE, content |-> change.content, originalLineNumber |-> change.oldLn])
  /\ modifiedLines' = Append(modifiedLines,
       [type |-> EMPTY, content |-> << >>, modifiedLineNumber |-> change.oldLn])
  /\ rawIndex' = rawIndex + 1
  /\ UNCHANGED <<text1, text2, lines1, lines2, matrix, i, j, additions, deletions,
                 rawDiff, pc>>
  /\ UNCHANGED <<charVars, scrollVars>>

AssembleDelete ==
  /\ pc = "assemble"
  /\ rawIndex < Len(rawDiff)
  /\ change.type = DELETE
  /\ ~IsModification
  /\ originalLines' = Append(originalLines,
       [type |-> DELETE, content |-> change.content, originalLineNumber |-> change.oldLn])
  /\ modifiedLines' = Append(modifiedLines, [type |-> EMPTY, content |-> << >>])
  /\ rawIndex' = rawIndex + 1
  /\ UNCHANGED <<text1, text2, lines1, lines2, matrix, i, j, additions, deletions,
                 rawDiff, pc>>
  /\ UNCHANGED <<charVars, scrollVars>>

\* AssembleInsert without the Empty pad on the original side.
AssembleInsertNoPad ==
  /\ pc = "assemble"
  /\ rawIndex < Len(rawDiff)
  /\ change.type = INSERT
  /\ modifiedLines' = Append(modifiedLines,
       [type |-> INSERT, content |-> change.content, modifiedLineNumber |-> change.newLn])
  /\ rawIndex' = rawIndex + 1
  /\ UNCHANGED <<text1, text2, lines1, lines2, matrix, i, j, additions, deletions,
                 rawDiff, originalLines, pc>>
  /\ UNCHANGED <<charVars, scrollVars>>

AssembleInsert ==
  /\ pc = "assemble"
  /\ rawIndex < Len(rawDiff)
  /\ change.type = INSERT
  /\ originalLines' = Append(originalLines, [type |-> EMPTY, content |-> << >>])
  /\ modifiedLines' = Append(modifiedLines,
       [type |-> INSERT, content |-> change.content, modifiedLineNumber |-> change.newLn])
  /\ rawIndex' = rawIndex + 1
  /\ UNCHANGED <<text1, text2, lines1, lines2, matrix, i, j, additions, deletions,
                 rawDiff, pc>>
  /\ UNCHANGED <<charVars, scrollVars>>

\* Lines 168-173: the row loop is left and the result returned.
Return ==
  /\ pc = "assemble"
  /\ ~(rawIndex < Len(rawDiff))
  /\ pc' = "done"
  /\ UNCHANGED <<text1, text2, lines1, lines2, matrix, i, j, additions, deletions,
                 rawDiff, rawIndex, originalLines, modifiedLines>>
  /\ UNCHANGED <<charVars, scrollVars>>

Next ==
  \/ Setup
  \/ BacktrackEqual
  \/ BacktrackInsert
  \/ BacktrackDelete
  \/ BacktrackDone
  \/ AssembleEqual
  \/ AssembleReplace
  \/ AssembleDelete
  \/ AssembleInsert
  \/ Return

Spec == Init /\ [][Next]_vars

Done == pc = "done"

\* ------------------------------------------------------ claim helpers
RECURSIVE KeepRows(_, _)
KeepRows(rows, kinds) ==
  IF rows = << >> THEN << >>
  ELSE IF Head(rows).type \in kinds
       THEN <<Head(rows)>> \o KeepRows(Tail(rows), kinds)
  ELSE KeepRows(Tail(rows), kinds)

CountKind(rows, kind) == Cardinality({k \in 1..Len(rows) : rows[k].type = kind})

IsReplacementRow(r) ==
  /\ originalLines[r].type = DELETE
  /\ modifiedLines[r].type = INSERT

\* C1: in every state of a run of computeDiff, originalLines and
\* modifiedLines have the same length (each step of the row loop appends
\* one entry to each).
RowCountInvariant == Len(originalLines) = Len(modifiedLines)

\* A returned result with a padded row on each side and a replacement row.
RowCountWitness ==
  /\ Done
  /\ \E r \in 1..Len(originalLines) : originalLines[r].type = EMPTY
  /\ \E r \in 1..Len(modifiedLines) : modifiedLines[r].type = EMPTY
  /\ \E r \in 1..Len(originalLines) : IsReplacementRow(r)

\* C2: in the returned result, dropping the Empty rows of originalLines
\* leaves one Equal or Delete row per line of original, in order, the k-th
\* carrying content = line k and originalLineNumber = k; symmetrically
\* for modifiedLines with Equal or Insert rows and modifiedLineNumber.
TotalityOfCoverage ==
  Done =>
    LET o == KeepRows(originalLines, {EQUAL, INSERT, DELETE})
        m == KeepRows(modifiedLines, {EQUAL, INSERT, DELETE})
    IN /\ Len(o) = Len(Split(text1))
       /\ \A k \in 1..Len(o) :
            /\ o[k].type \in {EQUAL, DELETE}
            /\ o[k].content = Split(text1)[k]
            /\ o[k].originalLineNumber = k
       /\ Len(m) = Len(Split(text2))
       /\ \A k \in 1..Len(m) :
            /\ m[k].type \in {EQUAL, INSERT}
            /\ m[k].content = Split(text2)[k]
            /\ m[k].modifiedLineNumber = k

\* A returned result of inputs of several lines with every kind of row.
CoverageWitness ==
  /\ Done
  /\ Len(lines1) >= 2
  /\ Len(lines2) >= 2
  /\ \E r \in 1..Len(originalLines) : originalLines[r].type = EQUAL
  /\ \E r \in 1..Len(originalLines) : IsReplacementRow(r)
  /\ \E r \in 1..Len(originalLines) : originalLines[r].type = EMPTY

\* C3: additions is the number of Insert tokens of the raw script at every
\* step and deletions the number of Delete tokens; in the returned result
\* they are the numbers of Insert rows of modifiedLines and of Delete rows
\* of originalLines.
CountConsistency ==
  /\ additions = CountKind(rawDiff, INSERT)
  /\ deletions = CountKind(rawDiff, DELETE)
  /\ Done => /\ additions = CountKind(modifiedLines, INSERT)
             /\ deletions = CountKind(originalLines, DELETE)

\* A returned result with a replacement row, a lone delete and a lone insert.
CountWitness ==
  /\ Done
  /\ \E r \in 1..Len(originalLines) : IsReplacementRow(r)
  /\ \E r \in 1..Len(originalLines) :
       originalLines[r].type = DELETE /\ modifiedLines[r].type = EMPTY
  /\ \E r \in 1..Len(originalLines) :
       originalLines[r].type = EMPTY /\ modifiedLines[r].type = INSERT
  /\ additions >= 2
  /\ deletions >= 2

\* The longest common subsequence by enumeration of the subsequences of A.
RECURSIVE IsSubsequence(_, _)
IsSubsequence(s, t) ==
  IF s = << >> THEN TRUE
  ELSE IF t = << >> THEN FALSE
  ELSE IF Head(s) = Head(t) THEN IsSubsequence(Tail(s), Tail(t))
  ELSE IsSubsequence(s, Tail(t))

RECURSIVE Pick(_, _, _)
Pick(A, S, k) ==
  IF k > Len(A) THEN << >>
  ELSE IF k \in S THEN <<A[k]>> \o Pick(A, S, k + 1)
  ELSE Pick(A, S, k + 1)

LcsLength(A, B) ==
  LET common == {Cardinality(S) : S \in {T \in SUBSET (1..Len(A)) :
                                          IsSubsequence(Pick(A, T, 1), B)}}
  IN CHOOSE n \in common : \A other \in common : other <= n

\* C4: the returned edit script is minimal: the number of Equal rows is
\* the length of a longest common subsequence of the two line sequences
\* and additions + deletions = n + m - 2 * that length.
MinimalScript ==
  Done =>
    LET lcs == LcsLength(Split(text1), Split(text2))
    IN /\ CountKind(originalLines, EQUAL) = lcs
       /\ CountKind(modifiedLines, EQUAL) = lcs
       /\ additions + deletions = Len(Split(text1)) + Len(Split(text2)) - 2 * lcs

\* A returned result whose common subsequence is shorter than both inputs
\* and not a prefix or suffix match only.
MinimalWitness ==
  /\ Done
  /\ Len(lines1) >= 3
  /\ Len(lines2) >= 2
  /\ CountKind(originalLines, EQUAL) >= 1
  /\ additions >= 1
  /\ deletions >= 1
  /\ lines1[1] # lines2[1]
  /\ lines1[Len(lines1)] # lines2[Len(lines2)]

Min(a, b) == IF a <= b THEN a ELSE b

\* Tokens p .. p+k-1 of rawDiff are a maximal run of k Deletes and tokens
\* p+k .. p+k+m-1 the maximal run of m Inserts that follows it.
IsRun(p, k, m) ==
  /\ p + k + m - 1 <= Len(rawDiff)
  /\ \A t \in p..(p + k - 1) : rawDiff[t].type = DELETE
  /\ \A t \in (p + k)..(p + k + m - 1) : rawDiff[t].type = INSERT
  /\ p = 1 \/ rawDiff[p - 1].type # DELETE
  /\ p + k + m - 1 = Len(rawDiff) \/ rawDiff[p + k + m].type # INSERT

Runs ==
  {run \in (1..Len(rawDiff)) \X (1..Len(rawDiff)) \X (1..Len(rawDiff)) :
     IsRun(run[1], run[2], run[3])}

\* The Delete token d and the Insert token n are the two sides of one row.
SharesRow(d, n) ==
  \E r \in 1..Len(originalLines) :
    /\ originalLines[r].type = DELETE
    /\ originalLines[r].originalLineNumber = d.oldLn
    /\ modifiedLines[r].type = INSERT
    /\ modifiedLines[r].modifiedLineNumber = n.newLn

LoneDeleteRow(d) ==
  \E r \in 1..Len(originalLines) :
    /\ originalLines[r].type = DELETE
    /\ originalLines[r].originalLineNumber = d.oldLn
    /\ modifiedLines[r] = [type |-> EMPTY, content |-> << >>]

LoneInsertRow(n) ==
  \E r \in 1..Len(originalLines) :
    /\ modifiedLines[r].type = INSERT
    /\ modifiedLines[r].modifiedLineNumber = n.newLn
    /\ originalLines[r] = [type |-> EMPTY, content |-> << >>]

\* The replacement rows whose Delete side is one of the tokens p .. p+k-1.
ReplacementRowsOfRun(p, k) ==
  {r \in 1..Len(originalLines) :
     /\ IsReplacementRow(r)
     /\ \E t \in p..(p + k - 1) : originalLines[r].originalLineNumber = rawDiff[t].oldLn}

\* C5 as stated: in the returned result, for every run of k Deletes
\* followed by m Inserts the q-th Delete shares a row with the q-th Insert
\* for q = 1..min(k, m), which gives min(k, m) replacement rows.
GreedyPairing ==
  Done =>
    \A run \in Runs :
      LET p == run[1]
          k == run[2]
          m == run[3]
      IN /\ \A q \in 1..Min(k, m) : SharesRow(rawDiff[p + q - 1], rawDiff[p + k + q - 1])
         /\ Cardinality(ReplacementRowsOfRun(p, k)) = Min(k, m)

\* C5 as amended: in the returned result, every run of k Deletes followed
\* by m Inserts gives exactly one replacement row, the last Delete paired
\* with the first Insert; the other k - 1 Deletes and m - 1 Inserts are
\* lone rows padded with Empty.
OneAheadPairing ==
  Done =>
    \A run \in Runs :
      LET p == run[1]
          k == run[2]
          m == run[3]
      IN /\ SharesRow(rawDiff[p + k - 1], rawDiff[p + k])
         /\ Cardinality(ReplacementRowsOfRun(p, k)) = 1
         /\ \A t \in p..(p + k - 2) : LoneDeleteRow(rawDiff[t])
         /\ \A t \in (p + k + 1)..(p + k + m - 1) : LoneInsertRow(rawDiff[t])

\* A returned result whose raw script has a run of two or more Deletes
\* followed by two or more Inserts.
PairingWitness ==
  /\ Done
  /\ \E run \in Runs : run[2] >= 2 /\ run[3] >= 2

RECURSIVE Concat(_)
Concat(parts) ==
  IF parts = << >> THEN << >> ELSE Head(parts).content \o Concat(Tail(parts))

HasParts(row) == "parts" \in DOMAIN row

\* C6: at every step, for every row that carries parts, the contents of
\* the original side's parts concatenate to the old line and those of the
\* modified side's parts to the new line, empty lines included.
CharDiffReconstruction ==
  \A r \in 1..Len(originalLines) :
    /\ HasParts(originalLines[r]) =>
         Concat(originalLines[r].parts) = originalLines[r].content
    /\ r <= Len(modifiedLines) /\ HasParts(modifiedLines[r]) =>
         Concat(modifiedLines[r].parts) = modifiedLines[r].content

\* A returned result with a replacement row between two lines that share
\* characters and a replacement row with an empty line.
ReconstructionWitness ==
  /\ Done
  /\ \E r \in 1..Len(originalLines) :
       /\ IsReplacementRow(r)
       /\ Len(originalLines[r].parts) >= 2
       /\ Len(modifiedLines[r].parts) >= 2
  /\ \E r \in 1..Len(originalLines) :
       /\ IsReplacementRow(r)
       /\ originalLines[r].content = << >> \/ modifiedLines[r].content = << >>

NoAdjacentOfKinds(parts, kinds) ==
  \A k \in 1..(Len(parts) - 1) :
    parts[k].type = parts[k + 1].type => parts[k].type \notin kinds

\* C7 as stated: at every step, in every parts list of every row no two
\* adjacent segments have the same kind.
RunMergeInParts ==
  \A r \in 1..Len(originalLines) :
    /\ HasParts(originalLines[r]) =>
         NoAdjacentOfKinds(originalLines[r].parts, {EQUAL, INSERT, DELETE, EMPTY})
    /\ r <= Len(modifiedLines) /\ HasParts(modifiedLines[r]) =>
         NoAdjacentOfKinds(modifiedLines[r].parts, {EQUAL, INSERT, DELETE, EMPTY})

\* C7 as amended: the merge is done on the character script before it is
\* filtered, so for every replacement row the unfiltered script of its two
\* lines has no two adjacent segments of the same kind, and in the parts
\* lists no two adjacent segments are both Delete (original side) or both
\* Insert (modified side); two Equal segments can be adjacent.
RunMergeBeforeFilter ==
  \A r \in 1..Len(originalLines) :
    (r <= Len(modifiedLines) /\ HasParts(originalLines[r]) /\ HasParts(modifiedLines[r])) =>
      /\ NoAdjacentOfKinds(computeCharDiff(originalLines[r].content, modifiedLines[r].content),
                           {EQUAL, INSERT, DELETE, EMPTY})
      /\ NoAdjacentOfKinds(originalLines[r].parts, {INSERT, DELETE, EMPTY})
      /\ NoAdjacentOfKinds(modifiedLines[r].parts, {INSERT, DELETE, EMPTY})

\* A returned result with a replacement row one of whose parts lists has
\* two adjacent Equal segments and whose other side has a merged segment
\* of several characters.
RunMergeWitness ==
  /\ Done
  /\ \E r \in 1..Len(originalLines) :
       /\ IsReplacementRow(r)
       /\ ~NoAdjacentOfKinds(originalLines[r].parts, {EQUAL})
          \/ ~NoAdjacentOfKinds(modifiedLines[r].parts, {EQUAL})
  /\ \E r \in 1..Len(originalLines) :
       /\ IsReplacementRow(r)
       /\ \E k \in 1..Len(originalLines[r].parts) :
            /\ originalLines[r].parts[k].type = DELETE
            /\ Len(originalLines[r].parts[k].content) >= 2

NumLines(text) == Cardinality({k \in 1..Len(text) : text[k] = LF}) + 1

\* C8: for equal inputs the returned result has one row per line of the
\* input, every row Equal on both sides with that line as content, and
\* additions = 0 and deletions = 0.
Identity ==
  (Done /\ text1 = text2) =>
    /\ Len(originalLines) = NumLines(text1)
    /\ Len(modifiedLines) = NumLines(text1)
    /\ \A r \in 1..Len(originalLines) :
         /\ originalLines[r] =
              [type |-> EQUAL, content |-> Split(text1)[r], originalLineNumber |-> r]
         /\ modifiedLines[r] =
              [type |-> EQUAL, content |-> Split(text1)[r], modifiedLineNumber |-> r]
    /\ additions = 0
    /\ deletions = 0

\* A returned result of equal inputs with a repeated non-empty line.
IdentityWitness ==
  /\ Done
  /\ text1 = text2
  /\ Len(lines1) >= 2
  /\ lines1[1] = lines1[Len(lines1)]
  /\ lines1[1] # << >>

IsEmptyVsX == text1 = << >> /\ text2 = <<"x">>

\* C9 as stated: computeDiff("", "x") returns one row, Empty on the
\* original side and Insert("x") on the modified side, with additions = 1
\* and deletions = 0.
EmptyVsXLoneInsert ==
  (Done /\ IsEmptyVsX) =>
    /\ Len(originalLines) = 1
    /\ Len(modifiedLines) = 1
    /\ originalLines[1].type = EMPTY
    /\ modifiedLines[1].type = INSERT
    /\ modifiedLines[1].content = <<"x">>
    /\ additions = 1
    /\ deletions = 0

\* C9 as amended: computeDiff("", "x") returns one row, a replacement row
\* with Delete("") (line 1, no parts left after filtering) on the original
\* side and Insert("x") (line 1, parts [Insert("x")]) on the modified
\* side, with additions = 1 and deletions = 1.
EmptyVsXReplacement ==
  (Done /\ IsEmptyVsX) =>
    /\ originalLines = << [type |-> DELETE, content |-> << >>,
                           originalLineNumber |-> 1, parts |-> << >>] >>
    /\ modifiedLines = << [type |-> INSERT, content |-> <<"x">>,
                           modifiedLineNumber |-> 1,
                           parts |-> <<[type |-> INSERT, content |-> <<"x">>]>>] >>
    /\ additions = 1
    /\ deletions = 1

\* The returned result of computeDiff("", "x").
EmptyVsXWitness == Done /\ IsEmptyVsX /\ Len(originalLines) = 1

IsHello == text1 = HelloWorld /\ text2 = HelloThere

\* C10 as stated: computeDiff("hello world", "hello there") returns one
\* replacement row with parts [Equal("hello "), Delete("world")] on the
\* original side and [Equal("hello "), Insert("there")] on the modified side.
HelloTwoSegments ==
  (Done /\ IsHello) =>
    /\ Len(originalLines) = 1
    /\ IsReplacementRow(1)
    /\ originalLines[1].parts =
         << [type |-> EQUAL, content |-> <<"h","e","l","l","o"," ">>],
            [type |-> DELETE, content |-> <<"w","o","r","l","d">>] >>
    /\ modifiedLines[1].parts =
         << [type |-> EQUAL, content |-> <<"h","e","l","l","o"," ">>],
            [type |-> INSERT, content |-> <<"t","h","e","r","e">>] >>

\* C10 as amended: computeDiff("hello world", "hello there") returns one
\* replacement row; the "r" the two words share is matched, so the parts
\* are [Equal("hello "), Delete("wo"), Equal("r"), Delete("ld")] on the
\* original side and [Equal("hello "), Insert("the"), Equal("r"),
\* Insert("e")] on the modified side.
HelloSharedLetter ==
  (Done /\ IsHello) =>
    /\ Len(originalLines) = 1
    /\ Len(modifiedLines) = 1
    /\ IsReplacementRow(1)
    /\ originalLines[1].content = HelloWorld
    /\ modifiedLines[1].content = HelloThere
    /\ originalLines[1].parts =
         << [type |-> EQUAL, content |-> <<"h","e","l","l","o"," ">>],
            [type |-> DELETE, content |-> <<"w","o">>],
            [type |-> EQUAL, content |-> <<"r">>],
            [type |-> DELETE, content |-> <<"l","d">>] >>
    /\ modifiedLines[1].parts =
         << [type |-> EQUAL, content |-> <<"h","e","l","l","o"," ">>],
            [type |-> INSERT, content |-> <<"t","h","e">>],
            [type |-> EQUAL, content |-> <<"r">>],
            [type |-> INSERT, content |-> <<"e">>] >>
    /\ additions = 1
    /\ deletions = 1

\* The returned result of computeDiff("hello world", "hello there").
HelloWitness == Done /\ IsHello /\ Len(originalLines) = 1 /\ IsReplacementRow(1)

\* ------------------------------------- computeDiff, character phase in steps
\* The same run of computeDiff with the call of computeCharDiff of a
\* replacement row unfolded into the steps of its backtracking loop.

\* Lines 130-134 and 8-28: the replacement branch is entered and
\* computeCharDiff called; split('') gives the code units of each line.
ReplaceBegin ==
  /\ pc = "assemble"
  /\ rawIndex < Len(rawDiff)
  /\ change.type = DELETE
  /\ IsModification
  /\ charChars1' = change.content
  /\ charChars2' = rawDiff[rawIndex + 2].content
  /\ charMatrix' = FillMatrix(charChars1', charChars2')
  /\ charI' = Len(charChars1')
  /\ charJ' = Len(charChars2')
  /\ charResult' = << >>
  /\ pc' = "char"
  /\ UNCHANGED <<text1, text2, lines1, lines2, matrix, i, j, additions, deletions,
                 rawDiff, rawIndex, originalLines, modifiedLines>>
  /\ UNCHANGED scrollVars

\* The loop condition and the two tests of lines 30-35.
CharInLoop == charI > 0 \/ charJ > 0

CharEqualHere == charI > 0 /\ charJ > 0 /\ charChars1[charI] = charChars2[charJ]

CharInsertHere ==
  charJ > 0 /\ (IF charI = 0 THEN TRUE
                ELSE Cell(charMatrix, charI, charJ - 1) >= Cell(charMatrix, charI - 1, charJ))

CharEqual ==
  /\ pc = "char"
  /\ CharInLoop
  /\ CharEqualHere
  /\ charResult' = <<[type |-> EQUAL, content |-> <<charChars1[charI]>>]>> \o charResult
  /\ charI' = charI - 1
  /\ charJ' = charJ - 1
  /\ UNCHANGED <<charChars1, charChars2, charMatrix>>
  /\ UNCHANGED <<diffVars, scrollVars>>

CharInsert ==
  /\ pc = "char"
  /\ CharInLoop
  /\ ~CharEqualHere
  /\ CharInsertHere
  /\ charResult' = <<[type |-> INSERT, content |-> <<charChars2[charJ]>>]>> \o charResult
  /\ charJ' = charJ - 1
  /\ UNCHANGED <<charChars1, charChars2, charMatrix, charI>>
  /\ UNCHANGED <<diffVars, scrollVars>>

\* CharDelete without the decrement of i.
CharDeleteNoStep ==
  /\ pc = "char"
  /\ CharInLoop
  /\ ~CharEqualHere
  /\ ~CharInsertHere
  /\ charResult' = <<[type |-> DELETE, content |-> <<charChars1[charI]>>]>> \o charResult
  /\ UNCHANGED <<charChars1, charChars2, charMatrix, charI, charJ>>
  /\ UNCHANGED <<diffVars, scrollVars>>

CharDelete ==
  /\ pc = "char"
  /\ CharInLoop
  /\ ~CharEqualHere
  /\ ~CharInsertHere
  /\ charResult' = <<[type |-> DELETE, content |-> <<charChars1[charI]>>]>> \o charResult
  /\ charI' = charI - 1
  /\ UNCHANGED <<charChars1, charChars2, charMatrix, charJ>>
  /\ UNCHANGED <<diffVars, scrollVars>>

\* Lines 44-59 and 136-155: the loop is left, the parts are merged and
\* returned, filtered for each side and the replacement row is pushed.
ReplaceEnd ==
  /\ pc = "char"
  /\ ~CharInLoop
  /\ LET charDiffs == MergeParts(charResult)
         originalParts == FilterOut(charDiffs, INSERT)
         modifiedParts == FilterOut(charDiffs, DELETE)
     IN /\ originalLines' = Append(originalLines,
             [type |-> DELETE, content |-> change.content,
              originalLineNumber |-> change.oldLn, parts |-> originalParts])
        /\ modifiedLines' = Append(modifiedLines,
             [type |-> INSERT, content |-> rawDiff[rawIndex + 2].content,
              modifiedLineNumber |-> rawDiff[rawIndex + 2].newLn, parts |-> modifiedParts])
  /\ rawIndex' = rawIndex + 2
  /\ pc' = "assemble"
  /\ charChars1' = << >>
  /\ charChars2' = << >>
  /\ charMatrix' = << >>
  /\ charI' = 0
  /\ charJ' = 0
  /\ charResult' = << >>
  /\ UNCHANGED <<text1, text2, lines1, lines2, matrix, i, j, additions, deletions,
                 rawDiff>>
  /\ UNCHANGED scrollVars

NextSteps ==
  \/ Setup
  \/ BacktrackEqual
  \/ BacktrackInsert
  \/ BacktrackDelete
  \/ BacktrackDone
  \/ AssembleEqual
  \/ ReplaceBegin
  \/ CharEqual
  \/ CharInsert
  \/ CharDelete
  \/ ReplaceEnd
  \/ AssembleDelete
  \/ AssembleInsert
  \/ Return

SpecSteps == Init /\ [][NextSteps]_vars

\* Every index the next step reads is inside its array.
IndexesInRange ==
  /\ pc \in {"start", "backtrack", "assemble", "char", "done"}
  /\ pc = "backtrack" =>
       /\ i \in 0..Len(lines1)
       /\ j \in 0..Len(lines2)
       /\ Len(matrix) = Len(lines1) + 1
       /\ \A r \in 1..Len(matrix) : Len(matrix[r]) = Len(lines2) + 1
       /\ (InLoop /\ ~EqualHere /\ ~InsertHere) => i > 0
  /\ pc = "char" =>
       /\ charI \in 0..Len(charChars1)
       /\ charJ \in 0..Len(charChars2)
       /\ Len(charMatrix) = Len(charChars1) + 1
       /\ \A r \in 1..Len(charMatrix) : Len(charMatrix[r]) = Len(charChars2) + 1
       /\ (CharInLoop /\ ~CharEqualHere /\ ~CharInsertHere) => charI > 0
       /\ rawIndex + 2 <= Len(rawDiff)
  /\ pc = "assemble" => rawIndex \in 0..Len(rawDiff)

\* Each iteration of a backtracking loop lowers i + j and each iteration
\* of the row loop raises rawIndex.
LoopsProgress ==
  /\ (pc = "backtrack" /\ pc' = "backtrack") => i' + j' < i + j
  /\ (pc = "char" /\ pc' = "char") => charI' + charJ' < charI + charJ
  /\ (pc \in {"assemble", "char"} /\ pc' = "assemble") => rawIndex' > rawIndex
  /\ (pc = "assemble" /\ pc' = "char") => rawIndex' = rawIndex

\* Every state before the return has a next step: the two backtracking
\* loops end in an else branch, the row loop in an else-if, so a row is
\* built only when the token is of one of the three kinds it tests.
CanStep ==
  (pc = "assemble" /\ rawIndex < Len(rawDiff)) => change.type \in {EQUAL, DELETE, INSERT}

\* C11: every run of computeDiff keeps its indexes in range, always has
\* a next step until it returns, lowers i + j at each backtracking step
\* (line and character level) and raises rawIndex at each row, so it
\* reaches the return after finitely many steps.
Totality ==
  /\ [](IndexesInRange /\ CanStep)
  /\ [][LoopsProgress]_vars

\* A returned result whose character phase ran on an empty line and on a
\* pair of lines that needed all three branches.
TotalityWitness ==
  /\ Done
  /\ \E r \in 1..Len(originalLines) :
       /\ IsReplacementRow(r)
       /\ originalLines[r].content = << >> \/ modifiedLines[r].content = << >>
  /\ \E r \in 1..Len(originalLines) :
       /\ IsReplacementRow(r)
       /\ \E k \in 1..Len(originalLines[r].parts) : originalLines[r].parts[k].type = EQUAL
       /\ \E k \in 1..Len(originalLines[r].parts) : originalLines[r].parts[k].type = DELETE
       /\ \E k \in 1..Len(modifiedLines[r].parts) : modifiedLines[r].parts[k].type = INSERT

\* The unfolded character phase computes what computeCharDiff computes.
StepsAgree ==
  (pc = "char" /\ ~CharInLoop) =>
    MergeParts(charResult) = computeCharDiff(charChars1, charChars2)

\* ------------------------------------------------------- row classification
\* Token t of rawDiff is a Delete whose next token is an Insert.
DeleteBeforeInsert(t) ==
  /\ rawDiff[t].type = DELETE
  /\ t < Len(rawDiff)
  /\ rawDiff[t + 1].type = INSERT

EmptySide == [type |-> EMPTY, content |-> << >>]

\* Row r is the replacement row of tokens t and t + 1.
ReplacementRowOf(r, t) ==
  /\ originalLines[r].type = DELETE
  /\ originalLines[r].content = rawDiff[t].content
  /\ originalLines[r].originalLineNumber = rawDiff[t].oldLn
  /\ HasParts(originalLines[r])
  /\ modifiedLines[r].type = INSERT
  /\ modifiedLines[r].content = rawDiff[t + 1].content
  /\ modifiedLines[r].modifiedLineNumber = rawDiff[t + 1].newLn
  /\ HasParts(modifiedLines[r])

\* C12: in the returned result a row is a replacement row (Delete and
\* Insert, both with parts) exactly when it comes from a Delete token
\* whose next token is an Insert; every other Delete gives (Delete, Empty)
\* and every other Insert gives (Empty, Insert), the Empty side with
\* content "" and no line number, and no other row carries parts.
OneAheadClassification ==
  Done =>
    /\ \A t \in 1..Len(rawDiff) :
         /\ DeleteBeforeInsert(t) =>
              \E r \in 1..Len(originalLines) : ReplacementRowOf(r, t)
         /\ (rawDiff[t].type = DELETE /\ ~DeleteBeforeInsert(t)) =>
              \E r \in 1..Len(originalLines) :
                /\ originalLines[r] = [type |-> DELETE, content |-> rawDiff[t].content,
                                       originalLineNumber |-> rawDiff[t].oldLn]
                /\ modifiedLines[r] = EmptySide
         /\ (rawDiff[t].type = INSERT /\ ~(t > 1 /\ DeleteBeforeInsert(t - 1))) =>
              \E r \in 1..Len(originalLines) :
                /\ originalLines[r] = EmptySide
                /\ modifiedLines[r] = [type |-> INSERT, content |-> rawDiff[t].content,
                                       modifiedLineNumber |-> rawDiff[t].newLn]
    /\ \A r \in 1..Len(originalLines) :
         /\ (IsReplacementRow(r) \/ HasParts(originalLines[r]) \/ HasParts(modifiedLines[r])) =>
              \E t \in 1..Len(rawDiff) : DeleteBeforeInsert(t) /\ ReplacementRowOf(r, t)
         /\ originalLines[r].type = EMPTY => originalLines[r] = EmptySide
         /\ modifiedLines[r].type = EMPTY => modifiedLines[r] = EmptySide
    /\ Len(originalLines) =
         Len(rawDiff) - Cardinality({t \in 1..Len(rawDiff) : DeleteBeforeInsert(t)})

\* A returned result with a Delete that is not followed by an Insert, a
\* Delete that is, and an Insert that follows an Insert.
ClassificationWitness ==
  /\ Done
  /\ \E t \in 1..Len(rawDiff) : DeleteBeforeInsert(t)
  /\ \E t \in 1..Len(rawDiff) : rawDiff[t].type = DELETE /\ ~DeleteBeforeInsert(t)
  /\ \E t \in 2..Len(rawDiff) : rawDiff[t].type = INSERT /\ rawDiff[t - 1].type = INSERT

\* Tokens p .. q of rawDiff are a maximal run of tokens that are not Equal.
IsEditRun(p, q) ==
  /\ p <= q
  /\ \A t \in p..q : rawDiff[t].type # EQUAL
  /\ p = 1 \/ rawDiff[p - 1].type = EQUAL
  /\ q = Len(rawDiff) \/ rawDiff[q + 1].type = EQUAL

EditRuns ==
  {run \in (1..Len(rawDiff)) \X (1..Len(rawDiff)) : IsEditRun(run[1], run[2])}

\* The replacement rows whose Delete side is one of the tokens p .. q.
ReplacementRowsIn(p, q) ==
  {r \in 1..Len(originalLines) :
     /\ IsReplacementRow(r)
     /\ \E t \in p..q : /\ rawDiff[t].type = DELETE
                        /\ rawDiff[t].oldLn = originalLines[r].originalLineNumber}

\* C13: at every step no Insert token of rawDiff is directly followed by
\* a Delete token, so every maximal run of tokens that are not Equal is
\* its Deletes followed by its Inserts; in the returned result each such
\* run gives at most one replacement row, its last Delete paired with its
\* first Insert.
DeletesBeforeInserts ==
  /\ \A t \in 1..(Len(rawDiff) - 1) :
       ~(rawDiff[t].type = INSERT /\ rawDiff[t + 1].type = DELETE)
  /\ \A run \in EditRuns :
       \A t \in run[1]..run[2] : \A u \in run[1]..run[2] :
         (rawDiff[t].type = DELETE /\ rawDiff[u].type = INSERT) => t < u
  /\ Done =>
       \A run \in EditRuns :
         /\ Cardinality(ReplacementRowsIn(run[1], run[2])) <= 1
         /\ \A r \in ReplacementRowsIn(run[1], run[2]) :
              \E t \in run[1]..(run[2] - 1) :
                /\ ReplacementRowOf(r, t)
                /\ \A u \in run[1]..run[2] : rawDiff[u].type = DELETE => u <= t
                /\ \A u \in run[1]..run[2] : rawDiff[u].type = INSERT => u >= t + 1

\* A returned result with an Equal token and a run of several Deletes
\* followed by several Inserts.
DeletesBeforeInsertsWitness ==
  /\ Done
  /\ \E run \in EditRuns :
       /\ Cardinality({t \in run[1]..run[2] : rawDiff[t].type = DELETE}) >= 2
       /\ Cardinality({t \in run[1]..run[2] : rawDiff[t].type = INSERT}) >= 2
  /\ \E t \in 1..Len(rawDiff) : rawDiff[t].type = EQUAL

\* ------------------------------------------------------------- DiffViewer
\* Scroll synchronisation of the two panes.  The handlers do not read the
\* rows, so the diff variables keep the values Init gives them for two
\* empty texts; the panes scroll within 0..MaxScrollTop and
\* 0..MaxScrollLeft.  Both panes are mounted, so the null test of lines
\* 125 and 135 passes.  A scroll that moves a pane queues one scroll event
\* for it; scrolls of a pane whose event is still queued share that event.
InitScroll ==
  /\ text1 = << >>
  /\ text2 = << >>
  /\ lines1 = << >>
  /\ lines2 = << >>
  /\ matrix = << >>
  /\ i = 0
  /\ j = 0
  /\ additions = 0
  /\ deletions = 0
  /\ rawDiff = << >>
  /\ rawIndex = 0
  /\ originalLines = << >>
  /\ modifiedLines = << >>
  /\ pc = "start"
  /\ CharIdle
  /\ ScrollIdle

\* The queue after a scroll of the pane with the given cause.
Queue(events, pane, cause) ==
  IF \E k \in 1..Len(events) : events[k].pane = pane
  THEN [k \in 1..Len(events) |->
          IF events[k].pane = pane
          THEN [events[k] EXCEPT !.causes = events[k].causes \cup {cause}]
          ELSE events[k]]
  ELSE Append(events, [pane |-> pane, causes |-> {cause}])

\* The user scrolls the left pane, vertically or horizontally.
UserScrollLeft ==
  /\ \E top \in 0..MaxScrollTop, left \in 0..MaxScrollLeft :
       /\ <<top, left>> # <<leftScrollTop, leftScrollLeft>>
       /\ leftScrollTop' = top
       /\ leftScrollLeft' = left
  /\ scrollEvents' = Queue(scrollEvents, "left", "user")
  /\ UNCHANGED <<rightScrollTop, rightScrollLeft, isSyncingLeft, isSyncingRight,
                 userScrollIgnored>>
  /\ UNCHANGED <<diffVars, charVars>>

\* The user scrolls the right pane, vertically or horizontally.
UserScrollRight ==
  /\ \E top \in 0..MaxScrollTop, left \in 0..MaxScrollLeft :
       /\ <<top, left>> # <<rightScrollTop, rightScrollLeft>>
       /\ rightScrollTop' = top
       /\ rightScrollLeft' = left
  /\ scrollEvents' = Queue(scrollEvents, "right", "user")
  /\ UNCHANGED <<leftScrollTop, leftScrollLeft, isSyncingLeft, isSyncingRight,
                 userScrollIgnored>>
  /\ UNCHANGED <<diffVars, charVars>>

\* Lines 124-132: the scroll event of the left pane is dispatched.  The
\* assignment to scrollTop queues an event only if it moves the pane.
handleLeftScroll ==
  /\ scrollEvents # << >>
  /\ Head(scrollEvents).pane = "left"
  /\ IF isSyncingLeft
     THEN /\ isSyncingLeft' = FALSE
          /\ userScrollIgnored' = (userScrollIgnored \/ "user" \in Head(scrollEvents).causes)
          /\ scrollEvents' = Tail(scrollEvents)
          /\ UNCHANGED <<isSyncingRight, rightScrollTop>>
     ELSE /\ isSyncingRight' = TRUE
          /\ rightScrollTop' = leftScrollTop
          /\ scrollEvents' = IF rightScrollTop # leftScrollTop
                             THEN Queue(Tail(scrollEvents), "right", "program")
                             ELSE Tail(scrollEvents)
          /\ UNCHANGED <<isSyncingLeft, userScrollIgnored>>
  /\ UNCHANGED <<leftScrollTop, leftScrollLeft, rightScrollLeft>>
  /\ UNCHANGED <<diffVars, charVars>>

\* Lines 134-142: the scroll event of the right pane is dispatched.
handleRightScroll ==
  /\ scrollEvents # << >>
  /\ Head(scrollEvents).pane = "right"
  /\ IF isSyncingRight
     THEN /\ isSyncingRight' = FALSE
          /\ userScrollIgnored' = (userScrollIgnored \/ "user" \in Head(scrollEvents).causes)
          /\ scrollEvents' = Tail(scrollEvents)
          /\ UNCHANGED <<isSyncingLeft, leftScrollTop>>
     ELSE /\ isSyncingLeft' = TRUE
          /\ leftScrollTop' = rightScrollTop
          /\ scrollEvents' = IF leftScrollTop # rightScrollTop
                             THEN Queue(Tail(scrollEvents), "left", "program")
                             ELSE Tail(scrollEvents)
          /\ UNCHANGED <<isSyncingRight, userScrollIgnored>>
  /\ UNCHANGED <<rightScrollTop, leftScrollLeft, rightScrollLeft>>
  /\ UNCHANGED <<diffVars, charVars>>

NextScroll ==
  \/ UserScrollLeft
  \/ UserScrollRight
  \/ handleLeftScroll
  \/ handleRightScroll

SpecScroll == InitScroll /\ [][NextScroll]_vars

ProgramPending(pane) ==
  \E k \in 1..Len(scrollEvents) :
    scrollEvents[k].pane = pane /\ "program" \in scrollEvents[k].causes

\* C14: once every queued scroll event has been handled, both panes have
\* the same scrollTop; no handler returns early on an event that a user
\* scroll caused; and a flag is set only while the scroll event of the
\* handler's own assignment to scrollTop is queued.
ScrollSync ==
  /\ scrollEvents = << >> => leftScrollTop = rightScrollTop
  /\ ~userScrollIgnored
  /\ isSyncingLeft => ProgramPending("left")
  /\ isSyncingRight => ProgramPending("right")

====
